---- MODULE Spec2Model ----
(***************************************************************************)
(* Booking application: POST/GET/DELETE on the bookings table, the expiry  *)
(* evaluator of lib/timezone.ts and the cleanup routes.                    *)
(*                                                                         *)
(* Instants are milliseconds.  `now' is the true instant (what new Date()  *)
(* returns, i.e. UTC epoch milliseconds counted from 00:00 UTC of day 0).  *)
(* A JavaScript Date is modelled by its getTime() value, NaN for an        *)
(* Invalid Date (every instant of the model is a multiple of 500 ms, so    *)
(* no valid Date or difference of Dates has the value of NaN).  A date     *)
(* string "YYYY-MM-DD" is modelled by its day number (BadDate: a string    *)
(* that is no date).                                                       *)
(***************************************************************************)
EXTENDS Integers, Sequences, FiniteSets, TLC

VARIABLES store, now, hostOffset, nextId, inflight, resp, faulty, session, phoneInput,
          pending

vars == <<store, now, hostOffset, nextId, inflight, resp, faulty, session, phoneInput, pending>>

(***************************************************************************)
(* Program constants                                                       *)
(***************************************************************************)
THAILAND_TIMEZONE_OFFSET == 25200000
GRACE_MS == 1800000
SECOND == 1000
MINUTE == 60000
HOUR == 3600000
DAY == 86400000
NaN == -1

(***************************************************************************)
(* Bounds of the model                                                     *)
(***************************************************************************)
MaxRows == 2
MaxHalfHours == 5
MaxTokens == 4

(***************************************************************************)
(* Strings                                                                 *)
(*                                                                         *)
(* A time-of-day string is the sequence of its colon-separated fields,     *)
(* each field the number its two digits spell: "10:30" is <<10, 30>> and   *)
(* "10:30:00" is <<10, 30, 0>>.  A field that spells no number is NaN (as   *)
(* Number(field) gives); it stands for text that sorts before the digits.  *)
(* The empty string, which only the required-field check meets, is <<>>.   *)
(* On zero-padded fields the code-unit order of the strings is the         *)
(* lexicographic order of these sequences, a proper prefix being smaller.  *)
(* Phone numbers are sequences of one-character strings.                   *)
(***************************************************************************)
IsDigit(c) == c \in {"0", "1", "2", "3", "4", "5", "6", "7", "8", "9"}

\* JavaScript a < b on strings
StrLess(a, b) ==
  \/ \E i \in 1..Len(a) :
       /\ i <= Len(b)
       /\ \A j \in 1..(i - 1) : a[j] = b[j]
       /\ a[i] < b[i]
  \/ /\ Len(a) < Len(b)
     /\ \A j \in 1..Len(a) : a[j] = b[j]

StrLeq(a, b) == a = b \/ StrLess(a, b)

\* "HH:MM" as an <input type="time"> submits it
HHMM(h, m) == <<h, m>>

\* `${t}:00`
WithSeconds(t) == Append(t, 0)

(***************************************************************************)
(* JavaScript Date                                                         *)
(***************************************************************************)
BadDate == 0 - 1

\* comparisons and sums with an Invalid Date
Gt_NaNAsNumber(a, b) == a > b

Gt(a, b) == a # NaN /\ b # NaN /\ a > b
Plus(a, b) == IF a = NaN \/ b = NaN THEN NaN ELSE a + b
Minus(a, b) == IF a = NaN \/ b = NaN THEN NaN ELSE a - b

IsHHMM(t) == Len(t) = 2 /\ t[1] \in 0..23 /\ t[2] \in 0..59

IsHHMMSS(t) == Len(t) = 3 /\ t[1] \in 0..23 /\ t[2] \in 0..59 /\ t[3] \in 0..59

\* the [hours, minutes] = str.split(":").map(Number) destructuring: a missing
\* element is undefined, which the Date constructors read as NaN
HoursOf(t) == t[1]
MinutesOf(t) == IF Len(t) >= 2 THEN t[2] ELSE NaN

\* milliseconds of the wall-clock reading date, h:m:s counted from day 0, 00:00
WallMs(date, h, m, s) == date * DAY + h * HOUR + m * MINUTE + s * SECOND

\* new Date(`${date}T${t}`): an ES5 date-time string without offset is read
\* as local time of the host process; anything else after the T is invalid
ParseISOLocal(date, t, host) ==
  IF date = BadDate THEN NaN
  ELSE IF IsHHMM(t) THEN WallMs(date, HoursOf(t), MinutesOf(t), 0) - host
  ELSE IF IsHHMMSS(t)
    THEN WallMs(date, HoursOf(t), MinutesOf(t), t[3]) - host
  ELSE NaN

\* new Date(year, month - 1, day, hours, minutes, 0, 0): host-local components
LocalDate(date, h, m, host) ==
  IF date = BadDate \/ h = NaN \/ m = NaN THEN NaN
  ELSE WallMs(date, h, m, 0) - host

\* Date.UTC(year, month - 1, day, hours, minutes, 0)
DateUTC(date, h, m) ==
  IF date = BadDate \/ h = NaN \/ m = NaN THEN NaN
  ELSE WallMs(date, h, m, 0)

\* d.toLocaleString("sv-SE", {timeZone: "Asia/Bangkok"}) followed by
\* new Date(thatString): the Bangkok wall-clock reading of d, to the second,
\* read back as local time of the host
BangkokWallAsLocal(d, host) ==
  IF d = NaN THEN NaN
  ELSE ((d + THAILAND_TIMEZONE_OFFSET) \div SECOND) * SECOND - host

\* a reading of the clock that keeps the time of day and drops the date
getCurrentThailandDate_TimeOfDay(t, host) == BangkokWallAsLocal(t, host) % DAY

getCurrentThailandDate(t, host) == BangkokWallAsLocal(t, host)

\* the first method only: without the reading of the separate components
isBookingExpired_NoFallback(date, endTime, t, host) ==
  Gt(getCurrentThailandDate(t, host),
     BangkokWallAsLocal(ParseISOLocal(date, WithSeconds(endTime), host), host))

isBookingExpired(date, endTime, t, host) ==
  LET nowInThailand == getCurrentThailandDate(t, host)
      tempDate == ParseISOLocal(date, WithSeconds(endTime), host)
      bookingEndThailand == BangkokWallAsLocal(tempDate, host)
      finalBookingEnd ==
        IF bookingEndThailand = NaN
          THEN LocalDate(date, HoursOf(endTime), MinutesOf(endTime), host)
          ELSE bookingEndThailand
  IN Gt(nowInThailand, finalBookingEnd)

cleanupExpiredBookings(bookings, t, host) ==
  {b \in bookings : ~isBookingExpired(b.date, b.end_time, t, host)}

ExpiredIds_NoGrace(bookings, t, host) ==
  LET nowTh == getCurrentThailandDate(t, host)
  IN {b.id : b \in {r \in bookings :
        Gt(nowTh, ParseISOLocal(r.date, r.end_time, host))}}

\* performCleanup of app/api/cleanup/route.ts: the ids it selects
ExpiredIds(bookings, t, host) ==
  LET nowTh == getCurrentThailandDate(t, host)
  IN {b.id : b \in {r \in bookings :
        Gt(nowTh, Plus(ParseISOLocal(r.date, r.end_time, host), GRACE_MS))}}

\* performCleanup of the fixed-offset variant: the ids it selects
ExpiredIdsFixedOffset(bookings, t, host) ==
  LET nowTh == getCurrentThailandDate(t, host)
      timePart(r) == WithSeconds(r.end_time)
      bookingEndUTC(r) == DateUTC(r.date, HoursOf(timePart(r)), MinutesOf(timePart(r)))
      bookingEndThailand(r) == Minus(bookingEndUTC(r), THAILAND_TIMEZONE_OFFSET)
      timeDiff(r) == Minus(nowTh, bookingEndThailand(r))
  IN {b.id : b \in {r \in bookings : Gt(timeDiff(r), GRACE_MS)}}

(***************************************************************************)
(* Request inputs                                                          *)
(***************************************************************************)
Machines == {"A", "B"}
Sessions == {"s1", "s2"}
NoSession == ""
Clients == {"c1", "c2"}
HostOffsets == {0, THAILAND_TIMEZONE_OFFSET}
NoDate == 0 - 2
GoodPhone == <<"0", "8", "1", "2", "3", "4", "5", "6", "7", "8">>
ShortPhone == <<"1", "2", "3", "4", "5">>

\* <<startTime, endTime>> of the submissions: the three intervals between the
\* time points, an empty one and a reversed one
TimeWindows ==
  {<<HHMM(10, 0), HHMM(10, 30)>>, <<HHMM(10, 30), HHMM(11, 0)>>,
   <<HHMM(10, 0), HHMM(11, 0)>>, <<HHMM(10, 30), HHMM(10, 30)>>,
   <<HHMM(10, 30), HHMM(10, 0)>>}

WellFormedBodies ==
  {[bookerName |-> "n1", phone |-> GoodPhone, machine |-> m, date |-> 0,
    startTime |-> w[1], endTime |-> w[2]] : m \in Machines, w \in TimeWindows}

BaseBody ==
  [bookerName |-> "n1", phone |-> GoodPhone, machine |-> "A", date |-> 0,
   startTime |-> HHMM(10, 0), endTime |-> HHMM(10, 30)]

DefectiveBodies ==
  {[BaseBody EXCEPT !.bookerName = ""],
   [BaseBody EXCEPT !.phone = <<>>],
   [BaseBody EXCEPT !.phone = ShortPhone],
   [BaseBody EXCEPT !.machine = ""],
   [BaseBody EXCEPT !.date = NoDate],
   [BaseBody EXCEPT !.date = BadDate],
   [BaseBody EXCEPT !.startTime = <<>>],
   [BaseBody EXCEPT !.endTime = <<>>],
   [BaseBody EXCEPT !.startTime = <<NaN>>]}

\* the (session cookie, body) pairs of the POST requests
PostInputs ==
  (Sessions \X WellFormedBodies) \cup ({"s1"} \X DefectiveBodies)
    \cup {<<NoSession, BaseBody>>}

StartInstant == 2 * HOUR + 30 * MINUTE
Instants ==
  {StartInstant + k * 30 * MINUTE : k \in 0..MaxHalfHours}
    \cup {StartInstant + k * 30 * MINUTE + 500 : k \in 0..(MaxHalfHours - 1)}

(***************************************************************************)
(* The bookings table (scripts/001-create-bookings-table.sql)              *)
(***************************************************************************)
\* a TIME column returns HH:MM:SS
PgTime(t) == IF IsHHMM(t) THEN WithSeconds(t) ELSE t

\* DATE and TIME columns reject values that are not dates or times
PgAccepts(row) ==
  /\ row.date # BadDate
  /\ IsHHMM(row.start_time) \/ IsHHMMSS(row.start_time)
  /\ IsHHMM(row.end_time) \/ IsHHMMSS(row.end_time)

PgRow(row) ==
  [row EXCEPT !.start_time = PgTime(row.start_time), !.end_time = PgTime(row.end_time)]

getBookingsFromSupabase(st, fail) == IF fail THEN {} ELSE st

(***************************************************************************)
(* POST /api/bookings                                                      *)
(***************************************************************************)
\* a replace that strips the blanks and leaves the hyphens and parentheses
KeptInPhone_BlanksOnly(c) == c \notin {" ", "\t"}

\* the characters phone.replace(/[\s\-\(\)]/g, '') keeps
KeptInPhone(c) == c \notin {" ", "\t", "-", "(", ")"}

\* patterns.some(pattern => pattern.test(cleanPhone))
MatchesThaiPattern(cleanPhone) ==
  LET n == Len(cleanPhone)
      digitsFrom(k) == \A i \in k..n : IsDigit(cleanPhone[i])
      at(k, cs) == n >= k /\ cleanPhone[k] \in cs
  IN \/ at(1, {"0"}) /\ at(2, {"6", "8", "9"}) /\ digitsFrom(3) /\ n = 10
     \/ at(1, {"0"}) /\ at(2, {"2", "3", "4", "5", "6", "7"}) /\ digitsFrom(3)
          /\ n \in {9, 10}
     \/ at(1, {"+"}) /\ at(2, {"6"}) /\ at(3, {"6"}) /\ at(4, {"6", "8", "9"})
          /\ digitsFrom(5) /\ n = 12
     \/ at(1, {"+"}) /\ at(2, {"6"}) /\ at(3, {"6"}) /\ at(4, {"0"})
          /\ at(5, {"2", "3", "4", "5", "6", "7"}) /\ digitsFrom(6) /\ n \in {12, 13}
     \/ at(1, {"6"}) /\ at(2, {"6"}) /\ at(3, {"6", "8", "9"}) /\ digitsFrom(4) /\ n = 11
     \/ at(1, {"6"}) /\ at(2, {"6"}) /\ at(3, {"0"})
          /\ at(4, {"2", "3", "4", "5", "6", "7"}) /\ digitsFrom(5) /\ n \in {11, 12}

validateThaiPhone(phone) == MatchesThaiPattern(SelectSeq(phone, KeptInPhone))

hasOverlappingBooking(bookings, newBooking) ==
  \E booking \in bookings :
    /\ ~(booking.machine # newBooking.machine \/ booking.date # newBooking.date)
    /\ StrLess(newBooking.start_time, booking.end_time)
    /\ StrLess(booking.start_time, newBooking.end_time)

newBookingData(body) ==
  [booker_name |-> body.bookerName, machine |-> body.machine, date |-> body.date,
   start_time |-> body.startTime, end_time |-> body.endTime, phone |-> body.phone]

\* a row that is not stamped with the session of the caller
newBooking_Unowned(body, sessionId, id) ==
  [id |-> id, booker_name |-> body.bookerName, machine |-> body.machine,
   date |-> body.date, start_time |-> body.startTime, end_time |-> body.endTime,
   phone |-> body.phone, session_id |-> NoSession]

\* (created_at, which no handler reads, is left out of the rows)
newBooking(body, sessionId, id) ==
  [id |-> id, booker_name |-> body.bookerName, machine |-> body.machine,
   date |-> body.date, start_time |-> body.startTime, end_time |-> body.endTime,
   phone |-> body.phone, session_id |-> sessionId]

\* an insert that the table refuses when the row overlaps a stored one
insertBookingToSupabase_Exclusive(st, row, fail) ==
  IF fail \/ ~PgAccepts(row) \/ hasOverlappingBooking(st, row)
    THEN [ok |-> FALSE, store |-> st]
    ELSE [ok |-> TRUE, store |-> st \cup {PgRow(row)}]

insertBookingToSupabase(st, row, fail) ==
  IF fail \/ ~PgAccepts(row)
    THEN [ok |-> FALSE, store |-> st]
    ELSE [ok |-> TRUE, store |-> st \cup {PgRow(row)}]

MissingField(body) ==
  \/ body.bookerName = "" \/ body.machine = "" \/ body.date = NoDate
  \/ body.startTime = <<>> \/ body.endTime = <<>> \/ body.phone = <<>>

EndNotAfterStart_Strict(body) == StrLess(body.endTime, body.startTime)

EndNotAfterStart(body) == StrLeq(body.endTime, body.startTime)

\* bookingStartDateTime <= now; false when the start is an Invalid Date
StartNotInFuture(body, t, host) ==
  LET bookingStartDateTime == ParseISOLocal(body.date, body.startTime, host)
  IN bookingStartDateTime # NaN /\ bookingStartDateTime <= t

\* the status of each error response of POST
StatusOf(error) ==
  CASE error = "ok" -> 201
    [] error = "no_session" -> 401
    [] error = "missing_fields" -> 400
    [] error = "invalid_phone" -> 400
    [] error = "end_before_start" -> 400
    [] error = "not_in_future" -> 400
    [] error = "conflict" -> 409
    [] error = "insert_failed" -> 500

\* the checks with the overlap check moved ahead of the future check
POSTCheck_OverlapBeforeFuture(st, t1, t2, host, sessionId, body, readFail) ==
  LET bookings == cleanupExpiredBookings(getBookingsFromSupabase(st, readFail), t2, host)
  IN IF sessionId = NoSession THEN "no_session"
     ELSE IF MissingField(body) THEN "missing_fields"
     ELSE IF ~validateThaiPhone(body.phone) THEN "invalid_phone"
     ELSE IF EndNotAfterStart(body) THEN "end_before_start"
     ELSE IF hasOverlappingBooking(bookings, newBookingData(body)) THEN "conflict"
     ELSE IF StartNotInFuture(body, t1, host) THEN "not_in_future"
     ELSE "ok"

\* POST up to and including the overlap check: the error it answers with, or
\* "ok" when the request goes on to insert.  t1 is the instant of the future
\* check, t2 the instant of the expiry filtering.
POSTCheck(st, t1, t2, host, sessionId, body, readFail) ==
  LET bookings == cleanupExpiredBookings(getBookingsFromSupabase(st, readFail), t2, host)
  IN IF sessionId = NoSession THEN "no_session"
     ELSE IF MissingField(body) THEN "missing_fields"
     ELSE IF ~validateThaiPhone(body.phone) THEN "invalid_phone"
     ELSE IF EndNotAfterStart(body) THEN "end_before_start"
     ELSE IF StartNotInFuture(body, t1, host) THEN "not_in_future"
     ELSE IF hasOverlappingBooking(bookings, newBookingData(body)) THEN "conflict"
     ELSE "ok"

\* the whole handler, executed without interleaving
POST(st, t1, t2, host, sessionId, body, id, readFail, insertFail) ==
  LET rejected == POSTCheck(st, t1, t2, host, sessionId, body, readFail)
      ins == insertBookingToSupabase(st, newBooking(body, sessionId, id), insertFail)
  IN IF rejected # "ok" THEN [status |-> StatusOf(rejected), error |-> rejected, store |-> st]
     ELSE IF ~ins.ok THEN [status |-> 500, error |-> "insert_failed", store |-> st]
     ELSE [status |-> 201, error |-> "ok", store |-> ins.store]

(***************************************************************************)
(* DELETE /api/bookings/[id]                                               *)
(***************************************************************************)
NotAllowedToDelete_AdminOnlyChecked(booking, sessionId, isAdmin) ==
  isAdmin /\ booking.session_id # sessionId

NotAllowedToDelete(booking, sessionId, isAdmin) ==
  ~isAdmin /\ booking.session_id # sessionId

\* a handler that keeps the row and blanks its owner instead of deleting it
DELETE_ClearsOwner(st, sessionId, bookingId, isAdmin, fetchFail, deleteFail) ==
  LET found == {b \in st : b.id = bookingId}
  IN IF sessionId = NoSession THEN [status |-> 401, store |-> st]
     ELSE IF fetchFail \/ found = {} THEN [status |-> 404, store |-> st]
     ELSE IF \E booking \in found : NotAllowedToDelete(booking, sessionId, isAdmin)
       THEN [status |-> 403, store |-> st]
     ELSE IF deleteFail THEN [status |-> 500, store |-> st]
     ELSE [status |-> 200,
           store |-> {IF b.id = bookingId THEN [b EXCEPT !.session_id = NoSession] ELSE b :
                        b \in st}]

\* a handler that lets the admin flag stand in for the session
DELETE_AdminNeedsNoSession(st, sessionId, bookingId, isAdmin, fetchFail, deleteFail) ==
  LET found == {b \in st : b.id = bookingId}
  IN IF sessionId = NoSession /\ ~isAdmin THEN [status |-> 401, store |-> st]
     ELSE IF fetchFail \/ found = {} THEN [status |-> 404, store |-> st]
     ELSE IF \E booking \in found : NotAllowedToDelete(booking, sessionId, isAdmin)
       THEN [status |-> 403, store |-> st]
     ELSE IF deleteFail THEN [status |-> 500, store |-> st]
     ELSE [status |-> 200, store |-> {b \in st : b.id # bookingId}]

\* (the body of the request is JSON, as both pages of the application send
\* it: { isAdmin: false } from the booking page, { isAdmin: true } from the
\* admin page)
DELETE(st, sessionId, bookingId, isAdmin, fetchFail, deleteFail) ==
  LET found == {b \in st : b.id = bookingId}
  IN IF sessionId = NoSession THEN [status |-> 401, store |-> st]
     ELSE IF fetchFail \/ found = {} THEN [status |-> 404, store |-> st]
     ELSE IF \E booking \in found : NotAllowedToDelete(booking, sessionId, isAdmin)
       THEN [status |-> 403, store |-> st]
     ELSE IF deleteFail THEN [status |-> 500, store |-> st]
     ELSE [status |-> 200, store |-> {b \in st : b.id # bookingId}]

\* deleteExpiredBookingsFromSupabase: the rows matching { expired: true }
deleteExpiredBookingsFromSupabase(st) == {b \in st : FALSE}

\* DELETE /api/bookings
DELETEExpired(st) ==
  LET deleted == deleteExpiredBookingsFromSupabase(st)
  IN [status |-> 200, store |-> st \ deleted, deletedCount |-> Cardinality(deleted)]

(***************************************************************************)
(* /api/cleanup                                                            *)
(***************************************************************************)
\* the run from the ids it selected: the delete and the response
CleanupResult(st, bookings, expiredIds, fetchFail, deleteFail) ==
  IF fetchFail
    THEN [status |-> 500, store |-> st, deletedCount |-> 0, activeCount |-> 0]
  ELSE IF expiredIds # {} /\ deleteFail
    THEN [status |-> 500, store |-> st, deletedCount |-> 0, activeCount |-> 0]
  ELSE [status |-> 200, store |-> {b \in st : b.id \notin expiredIds},
        deletedCount |-> Cardinality(expiredIds),
        activeCount |-> Cardinality(bookings) - Cardinality(expiredIds)]

\* a run that reports the rows it selected and does not delete them
performCleanup_NoDelete(st, t, host, fetchFail, deleteFail) ==
  [CleanupResult(st, st, ExpiredIds(st, t, host), fetchFail, deleteFail) EXCEPT !.store = st]

performCleanup(st, t, host, fetchFail, deleteFail) ==
  CleanupResult(st, st, ExpiredIds(st, t, host), fetchFail, deleteFail)

performCleanupFixedOffset(st, t, host, fetchFail, deleteFail) ==
  CleanupResult(st, st, ExpiredIdsFixedOffset(st, t, host), fetchFail, deleteFail)

(***************************************************************************)
(* GET /api/bookings                                                       *)
(***************************************************************************)
\* a listing that marks a booking as owned whenever the caller has a session
GET_OwnedWithAnySession(st, t, host, sessionId, readFail) ==
  LET activeBookings == cleanupExpiredBookings(getBookingsFromSupabase(st, readFail), t, host)
  IN [status |-> 200,
      bookings |-> {[booking |-> b, isOwner |-> (sessionId # NoSession)] :
                      b \in activeBookings},
      count |-> Cardinality(activeBookings),
      store |-> st]

\* a listing that writes the rows it kept back to the store
GET_WritesBack(st, t, host, sessionId, readFail) ==
  LET activeBookings == cleanupExpiredBookings(getBookingsFromSupabase(st, readFail), t, host)
  IN [status |-> 200,
      bookings |-> {[booking |-> b, isOwner |-> (b.session_id = sessionId)] :
                      b \in activeBookings},
      count |-> Cardinality(activeBookings),
      store |-> activeBookings]

\* (the handler calls the store once, to select the rows: the store it leaves
\* is the store it found)
GET(st, t, host, sessionId, readFail) ==
  LET activeBookings == cleanupExpiredBookings(getBookingsFromSupabase(st, readFail), t, host)
  IN [status |-> 200,
      bookings |-> {[booking |-> b, isOwner |-> (b.session_id = sessionId)] :
                      b \in activeBookings},
      count |-> Cardinality(activeBookings),
      store |-> st]

\* the comparator of activeBookings.sort is negative: a goes before b
comparesBefore_DateOnly(a, b) == a.date < b.date

comparesBefore(a, b) ==
  IF a.date # b.date THEN a.date < b.date ELSE StrLess(a.start_time, b.start_time)

\* activeBookings.sort(...): the select returns the rows in no stated order and
\* the sort keeps the rows it compares equal in the order it got them, so the
\* result is any arrangement of the rows in which no row goes before a row
\* the comparator puts before it
sortBookings(activeBookings) ==
  LET n == Cardinality(activeBookings)
  IN {arr \in [1..n -> activeBookings] :
        /\ \A i, j \in 1..n : i # j => arr[i] # arr[j]
        /\ \A i, j \in 1..n : i < j => ~comparesBefore(arr[j], arr[i])}

\* the bookings arrays GET can answer with
GETBookingsArrays(st, t, host, sessionId, readFail) ==
  LET activeBookings == cleanupExpiredBookings(getBookingsFromSupabase(st, readFail), t, host)
  IN {[i \in DOMAIN arr |-> [booking |-> arr[i], isOwner |-> (arr[i].session_id = sessionId)]] :
        arr \in sortBookings(activeBookings)}

(***************************************************************************)
(* GET and POST of the session route                                       *)
(*                                                                         *)
(* A token is the number of the uuidv4() call that made it; NoToken is the *)
(* absent cookie.  A client sends the cookie it was last given (the cookie *)
(* lives 30 days, beyond the horizon of the model).                        *)
(***************************************************************************)
NoToken == 0

\* a handler that makes a new session on every call
SessionGET_AlwaysNew(cookieValue, uuid) == [sessionId |-> uuid, setCookie |-> uuid]

SessionGET(cookieValue, uuid) ==
  IF cookieValue = NoToken
    THEN [sessionId |-> uuid, setCookie |-> uuid]
    ELSE [sessionId |-> cookieValue, setCookie |-> NoToken]

SessionPOST(uuid) == [sessionId |-> uuid, setCookie |-> uuid]

\* every client before its first contact, no token made so far
FirstContact ==
  [cookie |-> [c \in Clients |-> NoToken], returned |-> [c \in Clients |-> NoToken],
   cookieSet |-> [c \in Clients |-> FALSE], lastCall |-> [c \in Clients |-> "none"],
   made |-> 0]

\* the browser of client c after a response of the session route to its call
AfterSessionCall(c, call, r) ==
  [cookie |-> [session.cookie EXCEPT ![c] = IF r.setCookie # NoToken THEN r.setCookie ELSE @],
   returned |-> [session.returned EXCEPT ![c] = r.sessionId],
   cookieSet |-> [session.cookieSet EXCEPT ![c] = (r.setCookie # NoToken)],
   lastCall |-> [session.lastCall EXCEPT ![c] = call],
   made |-> IF r.setCookie # NoToken THEN session.made + 1 ELSE session.made]

(***************************************************************************)
(* The state machine                                                       *)
(***************************************************************************)
Response(op, status, error, count) ==
  [op |-> op, status |-> status, error |-> error, count |-> count]

Failures == IF faulty THEN BOOLEAN ELSE {FALSE}

\* a request that has read the rows and has not written yet: what it read,
\* the reading of the clock it took and its arguments
NoRequest == [op |-> "none", rows |-> {}, at |-> 0, args |-> <<>>]

Init ==
  /\ store = {}
  /\ now = StartInstant
  /\ hostOffset \in HostOffsets
  /\ nextId = 1
  /\ inflight = [c \in Clients |-> {}]
  /\ resp = Response("none", 0, "", 0)
  /\ faulty = FALSE
  /\ session = FirstContact
  /\ phoneInput = <<>>
  /\ pending = [c \in Clients |-> NoRequest]

\* time passes
Tick ==
  /\ \E t \in Instants : t > now /\ now' = t
  /\ UNCHANGED <<store, hostOffset, nextId, inflight, resp, faulty, session, phoneInput, pending>>

\* a POST /api/bookings request with one of the given inputs, run to completion
PostRequest(inputs) ==
  \E req \in inputs, readFail \in Failures, insertFail \in Failures :
    LET r == POST(store, now, now, hostOffset, req[1], req[2], nextId, readFail, insertFail)
    IN /\ r.status = 201 => nextId <= MaxRows
       /\ store' = r.store
       /\ nextId' = IF r.status = 201 THEN nextId + 1 ELSE nextId
       /\ resp' = Response("POST", r.status, r.error, 0)
       /\ UNCHANGED <<now, hostOffset, inflight, faulty, session, phoneInput, pending>>

Post == PostRequest(PostInputs)

\* a DELETE /api/bookings/[id] request, run to completion
Delete ==
  \E sessionId \in Sessions \cup {NoSession}, bookingId \in 1..MaxRows, isAdmin \in BOOLEAN,
     fetchFail \in Failures, deleteFail \in Failures :
    LET r == DELETE(store, sessionId, bookingId, isAdmin, fetchFail, deleteFail)
    IN /\ store' = r.store
       /\ resp' = Response("DELETE", r.status, "", 0)
       /\ UNCHANGED <<now, hostOffset, nextId, inflight, faulty, session, phoneInput, pending>>

\* a cleanup request (GET or POST /api/cleanup), run to completion
Cleanup ==
  \E fetchFail \in Failures, deleteFail \in Failures :
    LET r == performCleanup(store, now, hostOffset, fetchFail, deleteFail)
    IN /\ store' = r.store
       /\ resp' = Response("cleanup", r.status, "", r.deletedCount)
       /\ UNCHANGED <<now, hostOffset, nextId, inflight, faulty, session, phoneInput, pending>>

\* a cleanup request served by the fixed-offset variant of the route
CleanupFixedOffset ==
  \E fetchFail \in Failures, deleteFail \in Failures :
    LET r == performCleanupFixedOffset(store, now, hostOffset, fetchFail, deleteFail)
    IN /\ store' = r.store
       /\ resp' = Response("cleanupFixedOffset", r.status, "", r.deletedCount)
       /\ UNCHANGED <<now, hostOffset, nextId, inflight, faulty, session, phoneInput, pending>>

\* a GET /api/bookings request
GetBookings ==
  \E sessionId \in Sessions \cup {NoSession}, readFail \in Failures :
    LET r == GET(store, now, hostOffset, sessionId, readFail)
    IN /\ store' = r.store
       /\ resp' = Response("GET", r.status, "", r.count)
       /\ UNCHANGED <<now, hostOffset, nextId, inflight, faulty, session, phoneInput, pending>>

\* a DELETE /api/bookings request: it asks the table to delete the rows whose
\* column `expired' is true; no row has such a column, so nothing is deleted
\* and the answer counts 0 rows
DeleteExpired ==
  LET r == DELETEExpired(store)
  IN /\ store' = r.store
     /\ resp' = Response("DELETE expired", r.status, "", r.deletedCount)
     /\ UNCHANGED <<now, hostOffset, nextId, inflight, faulty, session, phoneInput, pending>>

Next ==
  \/ Tick \/ Post \/ Delete \/ Cleanup \/ CleanupFixedOffset \/ GetBookings
  \/ DeleteExpired

Spec == Init /\ [][Next]_vars

\* the same system with the scheduling the deployment provides: the clock
\* advances and the cleanup endpoint keeps being invoked
\* (one session booking the slots of one machine, so that the behaviours of
\* the whole system can be enumerated)
LiveInputs ==
  {req \in PostInputs :
     req[1] = "s1" /\ req[2] \in WellFormedBodies /\ req[2].machine = "A"}

PostLive == PostRequest(LiveInputs)

NextLive == Tick \/ PostLive \/ Cleanup

SpecLive == Init /\ [][NextLive]_vars /\ WF_vars(Tick) /\ WF_vars(Cleanup)

(***************************************************************************)
(* The expiry evaluator, the listing and the cleanup on one booking of     *)
(* any content, at any instant, on any host, with a store that answers or  *)
(* one whose calls may fail                                                *)
(***************************************************************************)
EvalHostOffsets == {0 - 5 * HOUR, 0, THAILAND_TIMEZONE_OFFSET, 9 * HOUR}
\* ten minutes past midnight of day 1 on a clock of UTC+7
JustAfterMidnight == DAY - THAILAND_TIMEZONE_OFFSET + 10 * MINUTE
EvalInstants == Instants \cup {t + DAY : t \in Instants} \cup {JustAfterMidnight}
EvalDates == {0, 1, BadDate}
EvalEndTimes ==
  {<<10, 30>>, <<10, 30, 0>>, <<11, 0, 0>>, <<23, 50, 0>>,
   <<NaN>>, <<NaN, 30>>, <<10, NaN>>, <<10, NaN, 0>>}

EvalRow(date, endTime) ==
  [id |-> 1, booker_name |-> "n1", machine |-> "A", date |-> date,
   start_time |-> <<10, 0, 0>>, end_time |-> endTime, phone |-> GoodPhone,
   session_id |-> "s1"]

InitEval ==
  /\ \E date \in EvalDates, endTime \in EvalEndTimes : store = {EvalRow(date, endTime)}
  /\ now \in EvalInstants
  /\ hostOffset \in EvalHostOffsets
  /\ nextId = 2
  /\ inflight = [c \in Clients |-> {}]
  /\ resp = Response("none", 0, "", 0)
  /\ faulty \in BOOLEAN
  /\ session = FirstContact
  /\ phoneInput = <<>>
  /\ pending = [c \in Clients |-> NoRequest]

\* isBookingExpired applied to a booking of the store
Evaluate ==
  /\ \E b \in store :
       resp' = Response("isBookingExpired", 0,
                        IF isBookingExpired(b.date, b.end_time, now, hostOffset)
                          THEN "expired" ELSE "active", 0)
  /\ UNCHANGED <<store, now, hostOffset, nextId, inflight, faulty, session, phoneInput, pending>>

NextEval == Evaluate \/ GetBookings \/ Cleanup \/ CleanupFixedOffset

SpecEval == InitEval /\ [][NextEval]_vars

(***************************************************************************)
(* The session route, called by the clients in any order                   *)
(***************************************************************************)
\* client c's GET of the session route
GetSession(c) ==
  LET r == SessionGET(session.cookie[c], session.made + 1)
  IN /\ r.setCookie # NoToken => session.made < MaxTokens
     /\ session' = AfterSessionCall(c, "GET", r)
     /\ UNCHANGED <<store, now, hostOffset, nextId, inflight, resp, faulty, phoneInput, pending>>

\* client c's POST of the session route (a forced new session)
PostSession(c) ==
  LET r == SessionPOST(session.made + 1)
  IN /\ session.made < MaxTokens
     /\ session' = AfterSessionCall(c, "POST", r)
     /\ UNCHANGED <<store, now, hostOffset, nextId, inflight, resp, faulty, phoneInput, pending>>

NextSession == \E c \in Clients : GetSession(c) \/ PostSession(c)

SpecSession == Init /\ [][NextSession]_vars

(***************************************************************************)
(* The phone check on one submitted phone number                           *)
(***************************************************************************)
\* numbers of each pattern, and numbers of none
PhoneBases ==
  {GoodPhone, ShortPhone,
   <<"0", "2", "1", "2", "3", "4", "5", "6", "7">>,
   <<"0", "2", "1", "2", "3", "4", "5", "6", "7", "8">>,
   <<"+", "6", "6", "8", "1", "2", "3", "4", "5", "6", "7", "8">>,
   <<"+", "6", "6", "0", "2", "1", "2", "3", "4", "5", "6", "7">>,
   <<"6", "6", "8", "1", "2", "3", "4", "5", "6", "7", "8">>,
   <<"6", "6", "0", "2", "1", "2", "3", "4", "5", "6", "7">>,
   <<"0", "1", "1", "2", "3", "4", "5", "6", "7", "8">>,
   <<"0", "8", "1", "2", "3", "4", "5", "6", "7">>,
   <<"0", "8", "1", "2", "3", "4", "5", "6", "7", "8", "9">>,
   <<"0", "8", "1", "2", "3", "4", "5", "6", "7", "a">>}

InsertedChars == {" ", "\t", "-", "(", ")", ".", "/"}

Insert(phone, i, ch) == SubSeq(phone, 1, i) \o <<ch>> \o SubSeq(phone, i + 1, Len(phone))

\* the numbers as typed, and with one blank or punctuation mark typed into them
PhoneInputs ==
  PhoneBases
    \cup UNION {{Insert(b, i, ch) : i \in 0..Len(b), ch \in InsertedChars} : b \in PhoneBases}

InitPhone ==
  /\ store = {}
  /\ now = StartInstant
  /\ hostOffset \in HostOffsets
  /\ nextId = 1
  /\ inflight = [c \in Clients |-> {}]
  /\ resp = Response("none", 0, "", 0)
  /\ faulty = FALSE
  /\ session = FirstContact
  /\ phoneInput \in PhoneInputs
  /\ pending = [c \in Clients |-> NoRequest]

\* validateThaiPhone applied to the submitted number
ValidatePhone ==
  /\ resp' = Response("validateThaiPhone", 0,
                      IF validateThaiPhone(phoneInput) THEN "valid" ELSE "invalid", 0)
  /\ UNCHANGED <<store, now, hostOffset, nextId, inflight, faulty, session, phoneInput, pending>>

NextPhone == ValidatePhone

SpecPhone == InitPhone /\ [][NextPhone]_vars

(***************************************************************************)
(* POST requests that fail several checks at once                          *)
(***************************************************************************)
\* bodies with any combination of a missing name, a phone of no pattern and a
\* reversed time window, sent with and without session
ManyDefectInputs ==
  {<<sessionId, [BaseBody EXCEPT !.bookerName = name, !.phone = phone,
                                 !.startTime = w[1], !.endTime = w[2]]>> :
     sessionId \in {NoSession, "s1"}, name \in {"n1", ""},
     phone \in {GoodPhone, ShortPhone},
     w \in {<<HHMM(10, 0), HHMM(10, 30)>>, <<HHMM(10, 30), HHMM(10, 0)>>}}

PostManyDefects == PostRequest(ManyDefectInputs)

NextOrder == Tick \/ PostManyDefects

SpecOrder == Init /\ [][NextOrder]_vars

(***************************************************************************)
(* GET /api/bookings over tables of several dates and start times          *)
(***************************************************************************)
ListRow(id, date, startTime, endTime) ==
  PgRow([id |-> id, booker_name |-> "n1", machine |-> "A", date |-> date,
         start_time |-> startTime, end_time |-> endTime, phone |-> GoodPhone,
         session_id |-> "s1"])

\* rows whose ids are not in the order of their dates and start times
ListRows ==
  {ListRow(1, 1, HHMM(10, 0), HHMM(10, 30)),
   ListRow(2, 0, HHMM(10, 30), HHMM(11, 0)),
   ListRow(3, 0, HHMM(10, 0), HHMM(10, 30)),
   ListRow(4, 1, HHMM(9, 0), HHMM(9, 30))}

InitList ==
  /\ store \in SUBSET ListRows
  /\ now \in Instants
  /\ hostOffset \in HostOffsets
  /\ nextId = 5
  /\ inflight = [c \in Clients |-> {}]
  /\ resp = Response("none", 0, "", 0)
  /\ faulty = FALSE
  /\ session = FirstContact
  /\ phoneInput = <<>>
  /\ pending = [c \in Clients |-> NoRequest]

NextList == Tick \/ GetBookings

SpecList == InitList /\ [][NextList]_vars

(***************************************************************************)
(* A cleanup run among other requests: performCleanup awaits the table     *)
(* twice, once to select the rows and once to delete the ids it chose      *)
(***************************************************************************)
\* the run from the reading of the clock to the answer of the select
CleanupRead(c) ==
  /\ pending[c].op = "none"
  /\ \E fetchFail \in Failures :
       IF fetchFail
         THEN /\ resp' = Response("cleanup", 500, "", 0)
              /\ UNCHANGED pending
         ELSE /\ pending' = [pending EXCEPT ![c] =
                              [op |-> "cleanup", rows |-> store, at |-> now, args |-> <<>>]]
              /\ UNCHANGED resp
  /\ UNCHANGED <<store, now, hostOffset, nextId, inflight, faulty, session, phoneInput>>

\* the run from the choice of the expired ids to its response
CleanupDelete(c) ==
  /\ pending[c].op = "cleanup"
  /\ \E deleteFail \in Failures :
       LET r == CleanupResult(store, pending[c].rows,
                              ExpiredIds(pending[c].rows, pending[c].at, hostOffset),
                              FALSE, deleteFail)
       IN /\ store' = r.store
          /\ resp' = Response("cleanup", r.status, "", r.deletedCount)
  /\ pending' = [pending EXCEPT ![c] = NoRequest]
  /\ UNCHANGED <<now, hostOffset, nextId, inflight, faulty, session, phoneInput>>

NextCleanupRace == Tick \/ PostLive \/ Delete \/ CleanupRead("c1") \/ CleanupDelete("c1")

SpecCleanupRace == Init /\ [][NextCleanupRace]_vars

(***************************************************************************)
(* The file-backed version of the routes (app/api/bookings/route.ts and    *)
(* the DELETE of bookings/[id] beside it): every handler reads the whole   *)
(* bookings.json with readBookings and rewrites it with writeBookings. The *)
(* variable store holds the content of the file. Inside one server process *)
(* a handler runs from its read to its write without awaiting; the requests*)
(* below are served by server processes of their own over the one file, so *)
(* that the read and the write of a request are separate steps.            *)
(***************************************************************************)
\* cleanupExpiredBookings of the file-backed route: bookingEndDateTime > now
FileCleanupExpiredBookings(bookings, t, host) ==
  {b \in bookings : Gt(ParseISOLocal(b.date, b.end_time, host), t)}

\* the body has no phone in this version
FileMissingField(body) ==
  \/ body.bookerName = "" \/ body.machine = "" \/ body.date = NoDate
  \/ body.startTime = <<>> \/ body.endTime = <<>>

FileNewBooking(body, sessionId, id) ==
  [id |-> id, booker_name |-> body.bookerName, machine |-> body.machine,
   date |-> body.date, start_time |-> body.startTime, end_time |-> body.endTime,
   session_id |-> sessionId]

\* the checks of POST that come before readBookings
FilePOSTCheck(sessionId, body, t, host) ==
  IF sessionId = NoSession THEN "no_session"
  ELSE IF FileMissingField(body) THEN "missing_fields"
  ELSE IF EndNotAfterStart(body) THEN "end_before_start"
  ELSE IF StartNotInFuture(body, t, host) THEN "not_in_future"
  ELSE "ok"

\* the requests of the two sessions for one slot, and one without a name
FileInputs ==
  {<<sessionId, BaseBody>> : sessionId \in Sessions}
    \cup {<<"s1", [BaseBody EXCEPT !.bookerName = ""]>>}

\* <<sessionId, bookingId, isAdmin>> of the DELETE requests: of a session for
\* a booking, of the administration page for a booking, and one without session
FileDeleteInputs ==
  {<<"s1", bookingId, FALSE>> : bookingId \in 1..MaxRows}
    \cup {<<"s2", 1, TRUE>>, <<NoSession, 1, FALSE>>}

\* the instant at which the slot of the requests has ended
FileLater == StartInstant + 3 * 30 * MINUTE

FileTick ==
  /\ now < FileLater
  /\ now' = FileLater
  /\ UNCHANGED <<store, hostOffset, nextId, inflight, resp, faulty, session, phoneInput, pending>>

\* POST up to readBookings
FilePostRead(c) ==
  /\ pending[c].op = "none"
  /\ \E req \in FileInputs :
       LET error == FilePOSTCheck(req[1], req[2], now, hostOffset)
       IN IF error # "ok"
            THEN /\ resp' = Response("POST", StatusOf(error), error, 0)
                 /\ UNCHANGED pending
            ELSE /\ pending' = [pending EXCEPT ![c] =
                                 [op |-> "POST", rows |-> store, at |-> now, args |-> req]]
                 /\ UNCHANGED resp
  /\ UNCHANGED <<store, now, hostOffset, nextId, inflight, faulty, session, phoneInput>>

\* POST from cleanupExpiredBookings to writeBookings and the response
FilePostWrite(c) ==
  /\ pending[c].op = "POST"
  /\ LET sessionId == pending[c].args[1]
         body == pending[c].args[2]
         bookings == FileCleanupExpiredBookings(pending[c].rows, pending[c].at, hostOffset)
     IN IF hasOverlappingBooking(bookings, newBookingData(body))
          THEN /\ resp' = Response("POST", 409, "conflict", 0)
               /\ UNCHANGED <<store, nextId>>
          ELSE /\ nextId <= MaxRows
               /\ store' = bookings \cup {FileNewBooking(body, sessionId, nextId)}
               /\ nextId' = nextId + 1
               /\ resp' = Response("POST", 201, "ok", 0)
  /\ pending' = [pending EXCEPT ![c] = NoRequest]
  /\ UNCHANGED <<now, hostOffset, inflight, faulty, session, phoneInput>>

\* GET up to readBookings
FileGetRead(c) ==
  /\ pending[c].op = "none"
  /\ pending' = [pending EXCEPT ![c] =
                  [op |-> "GET", rows |-> store, at |-> now, args |-> <<>>]]
  /\ UNCHANGED <<store, now, hostOffset, nextId, inflight, resp, faulty, session, phoneInput>>

\* GET from cleanupExpiredBookings on: it writes the rows it kept back when
\* it dropped one
FileGetWrite(c) ==
  /\ pending[c].op = "GET"
  /\ LET bookings == pending[c].rows
         activeBookings == FileCleanupExpiredBookings(bookings, pending[c].at, hostOffset)
     IN /\ store' = IF Cardinality(activeBookings) # Cardinality(bookings)
                      THEN activeBookings ELSE store
        /\ resp' = Response("GET", 200, "", Cardinality(activeBookings))
  /\ pending' = [pending EXCEPT ![c] = NoRequest]
  /\ UNCHANGED <<now, hostOffset, nextId, inflight, faulty, session, phoneInput>>

\* DELETE by id up to readBookings
FileDeleteRead(c) ==
  /\ pending[c].op = "none"
  /\ \E req \in FileDeleteInputs :
       IF req[1] = NoSession
         THEN /\ resp' = Response("DELETE", 401, "", 0)
              /\ UNCHANGED pending
         ELSE /\ pending' = [pending EXCEPT ![c] =
                              [op |-> "DELETE", rows |-> store, at |-> now, args |-> req]]
              /\ UNCHANGED resp
  /\ UNCHANGED <<store, now, hostOffset, nextId, inflight, faulty, session, phoneInput>>

\* DELETE by id from findIndex to writeBookings and the response
FileDeleteWrite(c) ==
  /\ pending[c].op = "DELETE"
  /\ LET sessionId == pending[c].args[1]
         bookingId == pending[c].args[2]
         isAdmin == pending[c].args[3]
         bookings == pending[c].rows
         found == {b \in bookings : b.id = bookingId}
     IN IF found = {}
          THEN /\ resp' = Response("DELETE", 404, "", 0)
               /\ UNCHANGED store
        ELSE IF \E booking \in found : NotAllowedToDelete(booking, sessionId, isAdmin)
          THEN /\ resp' = Response("DELETE", 403, "", 0)
               /\ UNCHANGED store
        ELSE /\ store' = bookings \ found
             /\ resp' = Response("DELETE", 200, "", 0)
  /\ pending' = [pending EXCEPT ![c] = NoRequest]
  /\ UNCHANGED <<now, hostOffset, nextId, inflight, faulty, session, phoneInput>>

NextFile ==
  \/ FileTick
  \/ \E c \in Clients :
       \/ FilePostRead(c) \/ FilePostWrite(c)
       \/ FileGetRead(c) \/ FileGetWrite(c)
       \/ FileDeleteRead(c) \/ FileDeleteWrite(c)

SpecFile == Init /\ [][NextFile]_vars

(***************************************************************************)
(* Concurrent POST requests: the handler awaits the store twice, once to   *)
(* read the rows and once to insert, and other requests run in between.    *)
(***************************************************************************)
\* client c's POST from its start to the await of the insert: the checks, the
\* read of the rows and the overlap check
PostBegin(c) ==
  /\ inflight[c] = {}
  /\ \E req \in PostInputs, readFail \in Failures :
       LET error == POSTCheck(store, now, now, hostOffset, req[1], req[2], readFail)
       IN IF error # "ok"
            THEN /\ resp' = Response("POST", StatusOf(error), error, 0)
                 /\ UNCHANGED <<inflight, nextId>>
            ELSE /\ nextId <= MaxRows
                 /\ inflight' = [inflight EXCEPT ![c] = {newBooking(req[2], req[1], nextId)}]
                 /\ nextId' = nextId + 1
                 /\ UNCHANGED resp
  /\ UNCHANGED <<store, now, hostOffset, faulty, session, phoneInput, pending>>

\* client c's POST from the insert to its response
PostFinish(c) ==
  /\ inflight[c] # {}
  /\ \E row \in inflight[c], insertFail \in Failures :
       LET ins == insertBookingToSupabase(store, row, insertFail)
       IN /\ store' = ins.store
          /\ resp' = IF ins.ok THEN Response("POST", 201, "ok", 0)
                               ELSE Response("POST", 500, "insert_failed", 0)
  /\ inflight' = [inflight EXCEPT ![c] = {}]
  /\ UNCHANGED <<now, hostOffset, nextId, faulty, session, phoneInput, pending>>

NextRace == \E c \in Clients : PostBegin(c) \/ PostFinish(c)

SpecRace == Init /\ [][NextRace]_vars

(***************************************************************************)
(* What the claims speak of: wall-clock readings and true instants         *)
(***************************************************************************)
TimeOfDay(t) == t[1] * HOUR + t[2] * MINUTE + (IF Len(t) = 3 THEN t[3] * SECOND ELSE 0)
StartWall(r) == r.date * DAY + TimeOfDay(r.start_time)
EndWall(r) == r.date * DAY + TimeOfDay(r.end_time)

\* the instant at which a clock of the fixed offset (UTC+7) shows the reading
InstantOfReading(wall) == wall - THAILAND_TIMEZONE_OFFSET

\* the half-open intervals of two bookings of one machine and date overlap
RowsOverlap(a, b) ==
  /\ a.machine = b.machine /\ a.date = b.date
  /\ StartWall(a) < EndWall(b) /\ StartWall(b) < EndWall(a)

HasTimes(body) == body.date \in Nat /\ IsHHMM(body.startTime) /\ IsHHMM(body.endTime)

\* C1: with requests executed one at a time, no two rows of one machine and
\* date have overlapping intervals [start_time, end_time).
C1_NoOverlappingRows ==
  \A a \in store, b \in store : a.id # b.id => ~RowsOverlap(a, b)

\* C3: a candidate that passes the session, field, phone, ordering and future
\* checks is answered 409 if and only if a row of the store of the same
\* machine and date overlaps its half-open interval.
C3_ConflictIffOverlap ==
  \A req \in PostInputs :
    LET error == POSTCheck(store, now, now, hostOffset, req[1], req[2], FALSE)
    IN (HasTimes(req[2]) /\ error \in {"ok", "conflict"})
         => (error = "conflict"
               <=> \E r \in store : RowsOverlap(r, newBooking(req[2], req[1], nextId)))

\* C4: DELETE removes a row only for its owning session or with isAdmin; a
\* request of another session without isAdmin gets 403 and changes nothing.
C4_DeleteOnlyByOwnerOrAdmin ==
  \A sessionId \in Sessions \cup {NoSession}, bookingId \in 1..MaxRows,
     isAdmin \in BOOLEAN, fetchFail \in BOOLEAN, deleteFail \in BOOLEAN :
    LET r == DELETE(store, sessionId, bookingId, isAdmin, fetchFail, deleteFail)
    IN /\ \A b \in store \ r.store :
            /\ b.id = bookingId
            /\ b.session_id = sessionId \/ isAdmin
       /\ r.store \subseteq store
       /\ \A b \in store :
            (b.id = bookingId /\ sessionId # NoSession /\ sessionId # b.session_id
               /\ ~isAdmin /\ ~fetchFail)
              => r.status = 403 /\ r.store = store

C4_Witness ==
  /\ resp.op = "DELETE" /\ resp.status = 403
  /\ store # {}

\* C5: POST never accepts a booking whose start instant, date + start_time
\* read as wall-clock time of UTC+7, is not strictly after the current instant.
C5_AcceptedStartsInFuture ==
  \A req \in PostInputs :
    POST(store, now, now, hostOffset, req[1], req[2], nextId, FALSE, FALSE).status = 201
      => InstantOfReading(StartWall(newBooking(req[2], req[1], nextId))) > now

\* C6: a POST whose end_time is not after its start_time is never accepted and
\* inserts nothing; every row of the store has end_time > start_time.
C6_EndAfterStart ==
  /\ \A req \in PostInputs, readFail \in BOOLEAN, insertFail \in BOOLEAN :
       LET r == POST(store, now, now, hostOffset, req[1], req[2], nextId, readFail, insertFail)
       IN (HasTimes(req[2]) /\ TimeOfDay(req[2].endTime) <= TimeOfDay(req[2].startTime))
            => r.status # 201 /\ r.store = store
  /\ \A b \in store : TimeOfDay(b.end_time) > TimeOfDay(b.start_time)

C6_Witness ==
  /\ resp.op = "POST" /\ resp.error = "end_before_start"
  /\ store # {}

C8_NeverDeletedEarly ==
  \A b \in store :
    (\/ b \notin performCleanup(store, now, hostOffset, FALSE, FALSE).store
     \/ b \notin performCleanupFixedOffset(store, now, hostOffset, FALSE, FALSE).store)
      => now - InstantOfReading(EndWall(b)) > GRACE_MS

\* C2: the insert of a POST is not tied to its overlap check: whatever other
\* requests inserted since the check, the insert adds the row (one the table's
\* column types accept) and the request is answered 201, so two interleaved
\* POSTs for one slot both pass the check and are both stored.
C2_InsertIgnoresLaterRows ==
  [][\A c \in Clients :
       (inflight[c] # {} /\ inflight'[c] = {})
         => \A row \in inflight[c] :
              PgAccepts(row) => resp'.status = 201 /\ PgRow(row) \in store']_vars

C2_Witness ==
  /\ hostOffset = THAILAND_TIMEZONE_OFFSET
  /\ \A c \in Clients : inflight[c] = {}
  /\ resp.op = "POST" /\ resp.status = 201
  /\ \E a \in store, b \in store : a.id # b.id /\ RowsOverlap(a, b)

\* with requests run one at a time on a host of offset UTC+7, no two rows
\* overlap (the double booking of C2 comes from the interleaving alone)
SequentialBangkokNoOverlap ==
  hostOffset = THAILAND_TIMEZONE_OFFSET => C1_NoOverlappingRows

\* the date or the end_time holds text that is no number
Unparseable(b) ==
  b.date = BadDate \/ \E i \in 1..Len(b.end_time) : b.end_time[i] = NaN

\* C9: a booking whose date or end_time cannot be parsed is reported not
\* expired by the evaluator, kept by the listing and not deleted by a cleanup.
C9_UnparseableKept ==
  \A b \in store :
    Unparseable(b) =>
      /\ ~isBookingExpired(b.date, b.end_time, now, hostOffset)
      /\ \A sessionId \in Sessions \cup {NoSession} :
           \E e \in GET(store, now, hostOffset, sessionId, FALSE).bookings : e.booking = b
      /\ b \in performCleanup(store, now, hostOffset, FALSE, FALSE).store

C9_Witness ==
  /\ resp.op = "cleanup" /\ resp.status = 200
  /\ \E b \in store : Unparseable(b) /\ b.date # BadDate
  /\ now > StartInstant + DAY

PastGrace(b) == now - InstantOfReading(EndWall(b)) > GRACE_MS

\* C10: every booking whose end plus the grace window has passed is
\* eventually removed from the store, when the cleanup endpoint keeps being
\* invoked and the store does not fail.
C10_ExpiredEventuallyRemoved ==
  \A id \in 1..MaxRows :
    (\E b \in store : b.id = id /\ PastGrace(b)) ~> (\A b \in store : b.id # id)

C10_Witness ==
  /\ resp.op = "cleanup" /\ resp.status = 200 /\ resp.count > 0
  /\ \A b \in store : ~PastGrace(b)

\* the rows of st whose end plus the grace window has passed at instant t
PastGraceAt(st, t) == {b \in st : t - InstantOfReading(EndWall(b)) > GRACE_MS}

\* the same with t read to the whole second
PastGraceAtSecond(st, t) ==
  {b \in st : (t \div SECOND) * SECOND - InstantOfReading(EndWall(b)) > GRACE_MS}

C12_ExpiryMonotonic ==
  \A t2 \in EvalInstants :
    t2 >= now =>
      /\ \A b \in store :
           isBookingExpired(b.date, b.end_time, now, hostOffset)
             => isBookingExpired(b.date, b.end_time, t2, hostOffset)
      /\ ExpiredIds(store, now, hostOffset) \subseteq ExpiredIds(store, t2, hostOffset)

\* the evaluator reported a booking expired, and later instants exist
C12_Witness ==
  /\ resp.op = "isBookingExpired" /\ resp.error = "expired"
  /\ \E t2 \in EvalInstants : t2 > now
  /\ \E b \in store : ~Unparseable(b)

\* the date a clock of UTC+7 shows at instant t
ThailandDateAt(t) == (t + THAILAND_TIMEZONE_OFFSET) \div DAY

DatedYesterday(b) == b.date \in Nat /\ b.date + 1 = ThailandDateAt(now)

C14_DeleteNoSessionOrNoRow ==
  \A bookingId \in 1..MaxRows, isAdmin \in BOOLEAN,
     fetchFail \in BOOLEAN, deleteFail \in BOOLEAN :
    /\ LET r == DELETE(store, NoSession, bookingId, isAdmin, fetchFail, deleteFail)
       IN r.status = 401 /\ r.store = store
    /\ \A sessionId \in Sessions :
         LET r == DELETE(store, sessionId, bookingId, isAdmin, fetchFail, deleteFail)
         IN (\A b \in store : b.id # bookingId) => r.status = 404 /\ r.store = store

\* a DELETE for an id that no row has, the store holding another row
C14_Witness ==
  /\ resp.op = "DELETE" /\ resp.status = 404
  /\ store # {}

\* C15: whenever the store reports a failure during a request (listing the
\* rows, inserting or deleting), the request is answered 500 and writes
\* nothing: POST does not insert when the read failed, GET does not answer 200.
C15_StoreFailureAnswered500 ==
  /\ \A sessionId \in Sessions :
       GET(store, now, hostOffset, sessionId, TRUE).status = 500
  /\ \A req \in PostInputs, insertFail \in BOOLEAN :
       LET r == POST(store, now, now, hostOffset, req[1], req[2], nextId, TRUE, insertFail)
       IN POSTCheck(store, now, now, hostOffset, req[1], req[2], FALSE) \in {"ok", "conflict"}
            => r.status = 500 /\ r.store = store
  /\ \A req \in PostInputs :
       LET r == POST(store, now, now, hostOffset, req[1], req[2], nextId, FALSE, TRUE)
       IN POSTCheck(store, now, now, hostOffset, req[1], req[2], FALSE) = "ok"
            => r.status = 500 /\ r.store = store
  /\ \A deleteFail \in BOOLEAN :
       LET r == performCleanup(store, now, hostOffset, TRUE, deleteFail)
       IN r.status = 500 /\ r.store = store
  /\ \A b \in store, isAdmin \in BOOLEAN, fetchFail \in BOOLEAN, deleteFail \in BOOLEAN :
       LET r == DELETE(store, b.session_id, b.id, isAdmin, fetchFail, deleteFail)
       IN (fetchFail \/ deleteFail) => r.status = 500 /\ r.store = store

\* the row holds what the body submitted, for the session of the caller
RowOfRequest(row, sessionId, body) ==
  /\ row.machine = body.machine /\ row.date = body.date
  /\ row.booker_name = body.bookerName /\ row.phone = body.phone
  /\ TimeOfDay(row.start_time) = TimeOfDay(body.startTime)
  /\ TimeOfDay(row.end_time) = TimeOfDay(body.endTime)
  /\ row.session_id = sessionId

\* C16: a POST answered 201 adds exactly one row, which holds the submitted
\* machine, date, times, name and phone and the session of the caller; a POST
\* without session cookie is answered 401 and adds nothing; every row of the
\* store has a non-empty session_id.
C16_PostAddsTheSubmittedRow ==
  /\ \A req \in PostInputs, readFail \in BOOLEAN, insertFail \in BOOLEAN :
       LET r == POST(store, now, now, hostOffset, req[1], req[2], nextId, readFail, insertFail)
       IN /\ r.status = 201 =>
               /\ store \subseteq r.store
               /\ Cardinality(r.store \ store) = 1
               /\ \A row \in r.store \ store : RowOfRequest(row, req[1], req[2])
          /\ r.status # 201 => r.store = store
          /\ req[1] = NoSession => r.status = 401 /\ r.store = store
  /\ \A b \in store : b.session_id # NoSession

\* two sessions have each had a POST accepted
C16_Witness ==
  /\ resp.op = "POST" /\ resp.status = 201
  /\ \E a \in store, b \in store : a.session_id = "s1" /\ b.session_id = "s2"

\* the end of the booking, read as wall-clock time of UTC+7, has passed
Ended(b) == now > InstantOfReading(EndWall(b))

\* C17: a booking created under session S that is neither deleted nor expired
\* is listed by GET with isOwner = TRUE for session S and isOwner = FALSE for
\* every other session cookie and for none.
C17_ListedWithOwnership ==
  \A b \in store :
    ~Ended(b) =>
      \A sessionId \in Sessions \cup {NoSession} :
        LET listed == {e \in GET(store, now, hostOffset, sessionId, FALSE).bookings :
                         e.booking = b}
        IN /\ listed # {}
           /\ \A e \in listed : e.isOwner = (sessionId = b.session_id)

\* a listing of bookings of two sessions that have not ended
C17_Witness ==
  /\ resp.op = "GET" /\ resp.status = 200 /\ resp.count = 2
  /\ \E a \in store, b \in store :
       a.session_id = "s1" /\ b.session_id = "s2" /\ ~Ended(a) /\ ~Ended(b)

\* C18: no operation updates a booking: the row of an id has the same fields
\* in every state from its insertion to its deletion.
C18_RowsImmutable ==
  [][\A b \in store : \A c \in store' : c.id = b.id => c = b]_vars

\* a row that stayed while another one was deleted
C18_Witness ==
  /\ resp.op = "DELETE" /\ resp.status = 200
  /\ store # {} /\ nextId = MaxRows + 1

\* what the session route has shown client c so far
SessionOf(ss, c) == <<ss.cookie[c], ss.returned[c], ss.cookieSet[c], ss.lastCall[c]>>

\* C19: a GET of the session route without cookie returns a new token and sets
\* it as the cookie; with a cookie it returns the value of the cookie and sets
\* none; so the sessionId returned to a client by its GET calls never changes
\* after the first one.
C19_SessionStable ==
  [][\A c \in Clients :
       (SessionOf(session', c) # SessionOf(session, c) /\ session'.lastCall[c] = "GET") =>
         /\ session.cookie[c] = NoToken =>
              /\ session'.returned[c] = session.made + 1
              /\ session'.cookieSet[c] /\ session'.cookie[c] = session'.returned[c]
         /\ session.cookie[c] # NoToken =>
              /\ session'.returned[c] = session.cookie[c]
              /\ ~session'.cookieSet[c] /\ session'.cookie[c] = session.cookie[c]
         /\ session.lastCall[c] = "GET" => session'.returned[c] = session.returned[c]]_vars

\* both clients have called GET again after their first call, and hold
\* different sessions
C19_Witness ==
  /\ \A c \in Clients :
       /\ session.lastCall[c] = "GET" /\ ~session.cookieSet[c]
       /\ session.returned[c] # NoToken /\ session.returned[c] = session.cookie[c]
  /\ session.returned["c1"] # session.returned["c2"]

Blanks == {" ", "\t"}
PunctuationMarks == {"-", "(", ")", ".", "/"}
StrippedMarks == {"-", "(", ")"}

\* the phone check strips the characters of `stripped' and matches the rest
\* against the patterns; a number stays valid when one of them is typed into it
PhoneCheckStrips(stripped) ==
  /\ validateThaiPhone(phoneInput)
       <=> MatchesThaiPattern(SelectSeq(phoneInput, LAMBDA ch : ch \notin stripped))
  /\ \A i \in 0..Len(phoneInput), ch \in stripped :
       validateThaiPhone(phoneInput) => validateThaiPhone(Insert(phoneInput, i, ch))

\* C20 as stated: the phone check strips whitespace and punctuation and
\* accepts iff the rest matches a pattern; "0812345678" is accepted, "12345"
\* rejected, and an accepted number with whitespace or punctuation typed into
\* it is accepted too.
C20_PhoneValidation ==
  /\ validateThaiPhone(GoodPhone) /\ ~validateThaiPhone(ShortPhone)
  /\ PhoneCheckStrips(Blanks \cup PunctuationMarks)

\* C20 amended: the same, the punctuation stripped being the hyphen and the
\* parentheses.
C20_PhoneValidationHyphensAndParentheses ==
  /\ validateThaiPhone(GoodPhone) /\ ~validateThaiPhone(ShortPhone)
  /\ PhoneCheckStrips(Blanks \cup StrippedMarks)

\* a number with a hyphen typed into it was found valid
C20_Witness ==
  /\ resp.op = "validateThaiPhone" /\ resp.error = "valid"
  /\ \E i \in 1..Len(phoneInput) : phoneInput[i] = "-"

\* the first check of the fixed order that the request fails
FirstFailingCheck(sessionId, body) ==
  IF sessionId = NoSession THEN "no_session"
  ELSE IF MissingField(body) THEN "missing_fields"
  ELSE IF ~validateThaiPhone(body.phone) THEN "invalid_phone"
  ELSE IF EndNotAfterStart(body) THEN "end_before_start"
  ELSE IF StartNotInFuture(body, now, hostOffset) THEN "not_in_future"
  ELSE IF hasOverlappingBooking(cleanupExpiredBookings(store, now, hostOffset),
                                newBookingData(body)) THEN "conflict"
  ELSE "ok"

StatusOfRejection ==
  [no_session |-> 401, missing_fields |-> 400, invalid_phone |-> 400,
   end_before_start |-> 400, not_in_future |-> 400, conflict |-> 409]

\* C21: POST applies its checks in the order session, fields, phone, ordering,
\* future, overlap; the first failing one determines the response (401, 400,
\* 400, 400, 400, 409) and every rejection leaves the store unchanged.
C21_FirstFailingCheckAnswers ==
  \A req \in ManyDefectInputs \cup PostInputs :
    LET r == POST(store, now, now, hostOffset, req[1], req[2], nextId, FALSE, FALSE)
        first == FirstFailingCheck(req[1], req[2])
    IN first # "ok" =>
         /\ r.error = first
         /\ r.status = StatusOfRejection[first]
         /\ r.store = store

\* a POST for a slot that is both taken and past was answered as past
C21_Witness ==
  /\ resp.op = "POST" /\ resp.error = "not_in_future"
  /\ hasOverlappingBooking(cleanupExpiredBookings(store, now, hostOffset),
                           newBookingData(BaseBody))

\* C22: GET answers with exactly the rows of the store that the evaluator
\* reports not expired, in the order of their dates and, within a date, of
\* their start times, and count is the number of rows answered.
C22_ListedActiveInOrder ==
  \A sessionId \in Sessions \cup {NoSession} :
    LET r == GET(store, now, hostOffset, sessionId, FALSE)
    IN \A arr \in GETBookingsArrays(store, now, hostOffset, sessionId, FALSE) :
         /\ {arr[i].booking : i \in DOMAIN arr}
              = {b \in store : ~isBookingExpired(b.date, b.end_time, now, hostOffset)}
         /\ \A i, j \in DOMAIN arr :
              i < j => StartWall(arr[i].booking) <= StartWall(arr[j].booking)
         /\ r.count = Len(arr)
         /\ r.status = 200

\* GET has answered with rows of two dates, two of them of one date, while
\* the store holds a row it leaves out
C22_Witness ==
  /\ resp.op = "GET" /\ resp.count >= 3 /\ resp.count < Cardinality(store)
  /\ \E a, b \in cleanupExpiredBookings(store, now, hostOffset) : a.date # b.date

\* C23: the rows POST leaves out as expired before its overlap check never
\* hide a conflict: whenever POST accepts a candidate, no row still in the
\* store, the rows left out as expired included, is of the same machine and
\* date with an overlapping interval, also when the clock advances between
\* the future check and the expiry filtering.
C23_ExpiredNeverHidesConflict ==
  \A req \in PostInputs, t2 \in Instants :
    (t2 >= now
       /\ POST(store, now, t2, hostOffset, req[1], req[2], nextId, FALSE, FALSE).status = 201)
      => \A b \in store : ~RowsOverlap(b, newBooking(req[2], req[1], nextId))

\* C24: a booking POST has just accepted is not eligible for automatic
\* deletion: a cleanup run at the instant of the acceptance does not delete it,
\* whatever the offset of the host.
C24_AcceptedNotDeletedAtOnce ==
  \A req \in PostInputs :
    LET r == POST(store, now, now, hostOffset, req[1], req[2], nextId, FALSE, FALSE)
    IN r.status = 201
         => \A row \in r.store \ store : row.id \notin ExpiredIds(r.store, now, hostOffset)

AsSubmitted(row) ==
  [row EXCEPT !.start_time = SubSeq(@, 1, 2), !.end_time = SubSeq(@, 1, 2)]

\* C26: the conflict test is symmetric: for two bookings of one machine and
\* date, the candidate with its times as submitted (HH:MM) tested against the
\* other as the table returns it (HH:MM:SS) gives the same answer with the
\* two bookings exchanged.
C26_ConflictTestSymmetric ==
  \A b \in store, body \in WellFormedBodies :
    (body.machine = b.machine /\ body.date = b.date
       /\ TimeOfDay(body.endTime) > TimeOfDay(body.startTime))
      => (hasOverlappingBooking({b}, newBookingData(body))
            <=> hasOverlappingBooking({PgRow(newBooking(body, b.session_id, nextId))},
                                      AsSubmitted(b)))

\* C27: the response of a cleanup run is accurate under concurrency:
\* deletedCount is the number of rows the run removes from the store and
\* activeCount the number of rows in the store when the run finishes, also
\* when a DELETE by id or a POST runs between the run's select and its delete.
C27_CleanupCountsAccurate ==
  \A c \in Clients :
    pending[c].op = "cleanup" =>
      LET r == CleanupResult(store, pending[c].rows,
                             ExpiredIds(pending[c].rows, pending[c].at, hostOffset),
                             FALSE, FALSE)
      IN /\ r.deletedCount = Cardinality(store \ r.store)
         /\ r.activeCount = Cardinality(r.store)

\* C28: the two cleanup implementations agree: for every content of the
\* store, instant and host offset, the fixed-offset variant selects the same
\* expired ids as the cleanup route.
C28_CleanupVariantsAgree ==
  ExpiredIdsFixedOffset(store, now, hostOffset) = ExpiredIds(store, now, hostOffset)

\* C29: GET /api/bookings has no effect on the store: the rows are the same
\* before and after the request, also when some of them are expired and left
\* out of the response.
C29_GetLeavesStore == [][GetBookings => store' = store]_vars

\* GET has answered with fewer rows than the store holds
C29_Witness ==
  /\ resp.op = "GET" /\ resp.status = 200
  /\ resp.count < Cardinality(store)
  /\ resp.count = Cardinality(cleanupExpiredBookings(store, now, hostOffset))

\* the request of some client that is writing in this step is the DELETE of
\* the booking
DeletedById(b) ==
  \E c \in Clients :
    /\ pending[c].op = "DELETE" /\ pending[c].args[2] = b.id
    /\ pending'[c].op = "none"

====
